---- MODULE Spec2Model ----
(***************************************************************************)
(* Model of extract_hmc_report.py: the text normalizer, the three          *)
(* fixed-layout extractors, the sheet classifier, the workbook loader with *)
(* its primary/fallback strategies, the aggregating main loop and the      *)
(* report renderer.                                                        *)
(*                                                                         *)
(* Text is a sequence of one-character strings ("ESC" and "BEL" stand for  *)
(* the bytes 0x1B and 0x07).  Python's None is the one-element sequence    *)
(* PyNone, which no text equals.                                           *)
(***************************************************************************)
EXTENDS Integers, Sequences, FiniteSets, TLC

VARIABLES
  pc,          \* position in main, or in the call of process_excel_sheet
  df,          \* the tabular view handed to process_excel_sheet
  sheet_name,  \* its sheet name
  data,        \* the collections process_excel_sheet appends to
  routed,      \* the extractor process_excel_sheet called, "none" if none
  nfiles,      \* len(excel_files)
  idx,         \* number of files processed by the loop of main
  cur,         \* the file of the last iteration
  file_data,   \* what extract_data_from_excel returned for it
  all_data,    \* the aggregate of main
  contrib,     \* history: file_data of every iteration, in order
  unreadable,  \* history: whether both strategies raised, per iteration
  calls,       \* number of calls of the loader and of the renderer
  doc,         \* the document written by create_word_document
  log          \* what main printed about the input directory

sheetVars == <<df, sheet_name, data, routed>>
mainVars == <<nfiles, idx, cur, file_data, all_data, contrib, unreadable,
              calls, doc, log>>
vars == <<pc, sheetVars, mainVars>>

-----------------------------------------------------------------------------
(* Characters and their code points                                        *)

Ord ==
  ("ESC" :> 27) @@ ("BEL" :> 7) @@ (" " :> 32) @@ ("/" :> 47) @@
  ("0" :> 48) @@ ("5" :> 53) @@ ("[" :> 91) @@ ("_" :> 95) @@
  ("C" :> 67) @@ ("H" :> 72) @@ ("L" :> 76) @@ ("M" :> 77) @@ ("S" :> 83) @@
  ("a" :> 97) @@ ("b" :> 98) @@ ("c" :> 99) @@ ("e" :> 101) @@
  ("f" :> 102) @@ ("h" :> 104) @@ ("i" :> 105) @@ ("l" :> 108) @@
  ("m" :> 109) @@ ("n" :> 110) @@ ("o" :> 111) @@ ("p" :> 112) @@
  ("r" :> 114) @@ ("s" :> 115) @@ ("t" :> 116) @@ ("u" :> 117) @@
  ("x" :> 120) @@ ("y" :> 121)

Alphabet == DOMAIN Ord

PyNone == <<"None">>
EmptyStr == << >>
NanStr == <<"n", "a", "n">>

(* str.lower() on one character *)
LowerChar(c) ==
  IF Ord[c] >= 65 /\ Ord[c] <= 90
    THEN CHOOSE d \in Alphabet : Ord[d] = Ord[c] + 32
    ELSE c

(* str.lower() *)
Lower(s) == [i \in 1..Len(s) |-> LowerChar(s[i])]

(* Python's `sub in s` for strings *)
Contains(s, sub) ==
  \E i \in 0..(Len(s) - Len(sub)) :
    \A j \in 1..Len(sub) : s[i + j] = sub[j]

-----------------------------------------------------------------------------
(* Cell values of a sheet                                                  *)

NoneCell == [k |-> "none", n |-> 0, s |-> EmptyStr]
NaNCell == [k |-> "nan", n |-> 0, s |-> EmptyStr]
NumCell(n) == [k |-> "num", n |-> n, s |-> EmptyStr]
StrCell(s) == [k |-> "str", n |-> 0, s |-> s]

(* a value whose truth test raises (pd.NA, an array) *)
FaultCell == [k |-> "fault", n |-> 0, s |-> EmptyStr]

(* Python truthiness of a cell value: None, 0 and "" are falsy; the float  *)
(* NaN is truthy.                                                          *)
Truthy(cell) ==
  CASE cell.k = "none" -> FALSE
    [] cell.k = "nan" -> TRUE
    [] cell.k = "num" -> cell.n # 0
    [] cell.k = "str" -> cell.s # EmptyStr

Digit(n) == CHOOSE d \in Alphabet : Ord[d] = 48 + n

(* str(value) *)
PyStr(cell) ==
  CASE cell.k = "none" -> <<"N", "o", "n", "e">>
    [] cell.k = "nan" -> NanStr
    [] cell.k = "num" -> <<Digit(cell.n)>>
    [] cell.k = "str" -> cell.s

-----------------------------------------------------------------------------
(* clean_text                                                              *)

IsFe(c) == (Ord[c] >= 64 /\ Ord[c] <= 90) \/ (Ord[c] >= 92 /\ Ord[c] <= 95)
IsParam(c) == Ord[c] >= 48 /\ Ord[c] <= 63
IsInter(c) == Ord[c] >= 32 /\ Ord[c] <= 47
IsFinal(c) == Ord[c] >= 64 /\ Ord[c] <= 126
IsControl(c) == (Ord[c] >= 0 /\ Ord[c] <= 31) \/ (Ord[c] >= 127 /\ Ord[c] <= 159)

RECURSIVE SkipParam(_, _)
SkipParam(s, i) ==
  IF i <= Len(s) /\ IsParam(s[i]) THEN SkipParam(s, i + 1) ELSE i

RECURSIVE SkipInter(_, _)
SkipInter(s, i) ==
  IF i <= Len(s) /\ IsInter(s[i]) THEN SkipInter(s, i + 1) ELSE i

(* Length of the match of \x1B(?:[@-Z\\-_]|\[[0-?]*[ -/]*[@-~]) at i, 0 if *)
(* the pattern does not match there.                                       *)
AnsiMatchLen(s, i) ==
  IF s[i] # "ESC" \/ i + 1 > Len(s) THEN 0
  ELSE IF IsFe(s[i + 1]) THEN 2
  ELSE IF s[i + 1] = "["
    THEN LET k == SkipInter(s, SkipParam(s, i + 2))
         IN  IF k <= Len(s) /\ IsFinal(s[k]) THEN k - i + 1 ELSE 0
  ELSE 0

(* ansi_escape.sub('', text) *)
RECURSIVE RemoveAnsi(_, _)
RemoveAnsi(s, i) ==
  IF i > Len(s) THEN EmptyStr
  ELSE LET m == AnsiMatchLen(s, i)
       IN  IF m > 0 THEN RemoveAnsi(s, i + m)
           ELSE <<s[i]>> \o RemoveAnsi(s, i + 1)

(* re.sub(r'[\x00-\x1f\x7f-\x9f]', '', text) *)
RemoveControl(s) == SelectSeq(s, LAMBDA c : ~IsControl(c))

(* str.strip() *)
RECURSIVE Strip(_)
Strip(s) ==
  IF s = EmptyStr THEN s
  ELSE IF Head(s) = " " THEN Strip(Tail(s))
  ELSE IF s[Len(s)] = " " THEN Strip(SubSeq(s, 1, Len(s) - 1))
  ELSE s

(* `if not text` raises on a value without a truth value *)
Raises(text) == text.k = "fault"

clean_text(text) ==
  IF ~Truthy(text) THEN EmptyStr
  ELSE Strip(RemoveControl(RemoveAnsi(PyStr(text), 1)))

-----------------------------------------------------------------------------
(* The tabular view of one sheet (a pandas DataFrame): nrows data rows,    *)
(* ncols columns, the cells that hold a value, and the value every other   *)
(* cell reads as (NaN from the primary reader, None from the fallback).    *)

Iloc(d, r, c) ==
  IF <<r, c>> \in DOMAIN d.cells THEN d.cells[<<r, c>>] ELSE d.blank

(* df.empty *)
IsEmptyDf(d) == d.nrows = 0 \/ d.ncols = 0

EmptyData == [hmc_info |-> << >>, system_info |-> << >>, lpar_info |-> << >>]

(* Python truthiness of a record field: None and "" are falsy *)
FieldTruthy(v) == v # PyNone /\ v # EmptyStr

-----------------------------------------------------------------------------
(* extract_hmc_info_from_sheet                                             *)

(* one of the six scalar fields: guarded read of a fixed cell *)
HmcCell(d, r, c) ==
  IF d.nrows > r /\ d.ncols > c THEN clean_text(Iloc(d, r, c)) ELSE PyNone

EthCol == ("eth0" :> 1) @@ ("eth1" :> 2) @@ ("eth2" :> 3) @@ ("eth3" :> 4)

EthHasEntry(d, c) ==
  /\ d.nrows > 23 /\ d.ncols > c
  /\ LET ip == clean_text(Iloc(d, 22, c))
     IN  ip # EmptyStr /\ ip # NanStr

EthEntry(d, c) ==
  LET ip == clean_text(Iloc(d, 22, c))
      netmask == clean_text(Iloc(d, 23, c))
  IN  IF netmask # EmptyStr /\ netmask # NanStr
        THEN ip \o <<"/">> \o netmask
        ELSE ip

HmcInfo(d) ==
  [hostname |-> HmcCell(d, 15, 1),
   ip_addresses |-> [e \in {x \in DOMAIN EthCol : EthHasEntry(d, EthCol[x])}
                       |-> EthEntry(d, EthCol[e])],
   hardware_model |-> HmcCell(d, 1, 1),
   serial |-> HmcCell(d, 2, 1),
   base_version |-> HmcCell(d, 4, 4),
   service_pack |-> HmcCell(d, 2, 4),
   gateway |-> HmcCell(d, 17, 1)]

HmcScalarFields ==
  {"hostname", "hardware_model", "serial", "base_version", "service_pack",
   "gateway"}

(* any(value for value in hmc_info.values() if value) *)
HmcAny(h) ==
  \/ \E f \in HmcScalarFields : FieldTruthy(h[f])
  \/ DOMAIN h.ip_addresses # {}

extract_hmc_info_from_sheet(d, dat) ==
  LET hmc_info == HmcInfo(d)
  IN  IF HmcAny(hmc_info)
        THEN [dat EXCEPT !.hmc_info = Append(@, hmc_info)]
        ELSE dat

-----------------------------------------------------------------------------
(* extract_system_summary_info_from_sheet                                  *)

(* a field of a row at a fixed column: guarded by len(row) > c *)
RowCell(d, r, c) ==
  IF d.ncols > c THEN clean_text(Iloc(d, r, c)) ELSE PyNone

(* clean_text(row.iloc[0]) if len(row) > 0 else "" *)
RowName(d, r) ==
  IF d.ncols > 0 THEN clean_text(Iloc(d, r, 0)) ELSE EmptyStr

(* if name and name != 'nan' and name.strip() *)
NameAccepted(name) ==
  name # EmptyStr /\ name # NanStr /\ Strip(name) # EmptyStr

(* the columns the extractors read in a row *)
ServerCols == {0, 2, 3, 6, 15, 22, 26}
LparCols == {0, 6, 7, 8, 16, 17, 18, 19, 20, 21, 33}

(* the try block of a row raises: clean_text raises on the name, or the    *)
(* name is accepted and clean_text raises on a field the row holds         *)
RowRaises(d, r, Cols) ==
  /\ d.ncols > 0
  /\ \/ Raises(Iloc(d, r, 0))
     \/ /\ NameAccepted(RowName(d, r))
        /\ \E c \in Cols \ {0} : d.ncols > c /\ Raises(Iloc(d, r, c))

ServerInfo(d, r) ==
  [server_name |-> RowName(d, r),
   model |-> RowCell(d, r, 2),
   serial |-> RowCell(d, r, 3),
   cpu |-> RowCell(d, r, 6),
   memory |-> RowCell(d, r, 15),
   firmware_level |-> RowCell(d, r, 26),
   fsp_ip_address |-> RowCell(d, r, 22)]

(* any(value for value in info.values() if value and value != name) *)
AnyOtherValue(info, name) ==
  \E f \in DOMAIN info : FieldTruthy(info[f]) /\ info[f] # name

(* the body of the loop for one row; `except Exception as row_error:      *)
(* continue` leaves the collections as they are                            *)
ServerRow(d, r, dat) ==
  LET server_name == RowName(d, r)
      server_info == ServerInfo(d, r)
  IN  IF RowRaises(d, r, ServerCols) THEN dat
      ELSE IF NameAccepted(server_name)
                /\ AnyOtherValue(server_info, server_name)
        THEN [dat EXCEPT !.system_info = Append(@, server_info)]
        ELSE dat

(* variant: no try block around a row, the first fault ends the loop *)
RECURSIVE ServerRowsAbort(_, _, _)
ServerRowsAbort(d, r, dat) ==
  IF r >= d.nrows \/ RowRaises(d, r, ServerCols) THEN dat
  ELSE ServerRowsAbort(d, r + 1, ServerRow(d, r, dat))

(* for index, row in df.iterrows(), from row r on *)
RECURSIVE ServerRows(_, _, _)
ServerRows(d, r, dat) ==
  IF r >= d.nrows THEN dat
  ELSE ServerRows(d, r + 1, ServerRow(d, r, dat))

extract_system_summary_info_from_sheet(d, dat) == ServerRows(d, 0, dat)

-----------------------------------------------------------------------------
(* extract_lpar_info_from_sheet                                            *)

LparInfo(d, r) ==
  [lpar_name |-> RowName(d, r),
   desired_entitled_cpu |-> RowCell(d, r, 17),
   min_cpu |-> RowCell(d, r, 16),
   max_cpu |-> RowCell(d, r, 18),
   desired_virtual_processor |-> RowCell(d, r, 20),
   min_virtual_processor |-> RowCell(d, r, 19),
   max_virtual_processor |-> RowCell(d, r, 21),
   entitled_memory_gb |-> RowCell(d, r, 7),
   min_memory_gb |-> RowCell(d, r, 6),
   max_memory_gb |-> RowCell(d, r, 8),
   power_server |-> RowCell(d, r, 33)]

LparRow(d, r, dat) ==
  LET lpar_name == RowName(d, r)
      lpar_info == LparInfo(d, r)
  IN  IF RowRaises(d, r, LparCols) THEN dat
      ELSE IF NameAccepted(lpar_name) /\ AnyOtherValue(lpar_info, lpar_name)
        THEN [dat EXCEPT !.lpar_info = Append(@, lpar_info)]
        ELSE dat

RECURSIVE LparRows(_, _, _)
LparRows(d, r, dat) ==
  IF r >= d.nrows THEN dat
  ELSE LparRows(d, r + 1, LparRow(d, r, dat))

extract_lpar_info_from_sheet(d, dat) == LparRows(d, 0, dat)

-----------------------------------------------------------------------------
(* process_excel_sheet                                                     *)

HmcKey == <<"h", "m", "c">>
SystemKey ==
  <<"s", "y", "s", "t", "e", "m", "_", "s", "u", "m", "m", "a", "r", "y">>
LparKey ==
  <<"l", "p", "a", "r", "_", "p", "r", "o", "f", "i", "l", "e", "s">>

(* variant: the system_summary test ahead of the hmc test *)
SheetBranchSystemFirst(d, name) ==
  IF IsEmptyDf(d) THEN "none"
  ELSE IF Contains(Lower(name), SystemKey) THEN "system"
  ELSE IF Contains(Lower(name), HmcKey) THEN "hmc"
  ELSE IF Contains(Lower(name), LparKey) THEN "lpar"
  ELSE "none"

(* the branch of the if/elif chain taken for a sheet *)
SheetBranch(d, name) ==
  IF IsEmptyDf(d) THEN "none"
  ELSE IF Contains(Lower(name), HmcKey) THEN "hmc"
  ELSE IF Contains(Lower(name), SystemKey) THEN "system"
  ELSE IF Contains(Lower(name), LparKey) THEN "lpar"
  ELSE "none"

process_excel_sheet(d, name, dat) ==
  CASE SheetBranch(d, name) = "hmc" -> extract_hmc_info_from_sheet(d, dat)
    [] SheetBranch(d, name) = "system" ->
         extract_system_summary_info_from_sheet(d, dat)
    [] SheetBranch(d, name) = "lpar" -> extract_lpar_info_from_sheet(d, dat)
    [] OTHER -> dat

-----------------------------------------------------------------------------
(* Inputs of the extractors: tabular views with at most MaxFilled cells    *)
(* holding a value, every dimension on either side of a guard of the code. *)

MaxFilled == 2
MaxRows == 2
MaxTokens == 2

FillPool ==
  {StrCell(<<"a">>), StrCell(<<"ESC", "[", "0", "m", "b", " ">>), NaNCell}

BlankPool == {NaNCell, NoneCell}

RECURSIVE KSubsets(_, _)
KSubsets(S, k) ==
  IF k = 0 THEN {{}}
  ELSE LET prev == KSubsets(S, k - 1)
       IN  prev \cup {T \cup {p} : T \in prev, p \in S}

InBounds(Offsets, nr, nc) == {p \in Offsets : p[1] < nr /\ p[2] < nc}

(* df is some view of the given dimensions and offsets *)
ChooseDf(RowCounts, ColCounts, Offsets) ==
  \E nr \in RowCounts, nc \in ColCounts :
    \E T \in KSubsets(InBounds(Offsets, nr, nc), MaxFilled) :
      \E f \in [T -> FillPool], b \in BlankPool :
        df = [nrows |-> nr, ncols |-> nc, cells |-> f, blank |-> b]

HmcOffsets ==
  {<<15, 1>>, <<1, 1>>, <<2, 1>>, <<4, 4>>, <<2, 4>>, <<17, 1>>}
    \cup {<<r, c>> : r \in {22, 23}, c \in 1..4}
HmcRowCounts == {1, 2, 3, 5, 16, 18, 23, 24}
HmcColCounts == {1, 2, 4, 5}

ServerColCounts == {1, 3, 7, 23, 27}
LparColCounts == {1, 7, 9, 17, 34}

RowOffsets(Cols) == {<<r, c>> : r \in 0..(MaxRows - 1), c \in Cols}

(* sheet names: up to MaxTokens of these pieces, concatenated *)
NameTokens ==
  {HmcKey, <<"H", "M", "C">>, SystemKey,
   <<"S", "y", "s", "t", "e", "m", "_", "S", "u", "m", "m", "a", "r", "y">>,
   LparKey,
   <<"L", "p", "a", "r", "_", "p", "r", "o", "f", "i", "l", "e", "s">>,
   <<"x">>}

RECURSIVE Names(_)
Names(k) ==
  IF k = 0 THEN {EmptyStr}
  ELSE LET prev == Names(k - 1)
       IN  prev \cup {n \o t : n \in prev, t \in NameTokens}

(* a view every extractor finds a record in, and two empty views *)
FullDf ==
  [nrows |-> 2, ncols |-> 7,
   cells |-> (<<0, 0>> :> StrCell(<<"a">>)) @@ (<<0, 2>> :> StrCell(<<"b">>))
             @@ (<<0, 6>> :> StrCell(<<"5">>)) @@ (<<1, 1>> :> StrCell(<<"b">>)),
   blank |-> NoneCell]
NoRowsDf == [FullDf EXCEPT !.nrows = 0, !.cells = << >>]
NoColsDf == [FullDf EXCEPT !.ncols = 0, !.cells = << >>]

(* collections that already hold one record of each kind *)
PriorData ==
  [hmc_info |-> <<HmcInfo(FullDf)>>,
   system_info |-> <<ServerInfo(FullDf, 0)>>,
   lpar_info |-> <<LparInfo(FullDf, 0)>>]

-----------------------------------------------------------------------------
(* One call of process_excel_sheet                                         *)

(* the main loop is not running *)
Idle ==
  /\ nfiles = 0 /\ idx = 0 /\ cur = << >> /\ file_data = EmptyData
  /\ all_data = EmptyData /\ contrib = << >> /\ unreadable = << >>
  /\ calls = [loader |-> 0, renderer |-> 0] /\ doc = << >>
  /\ log = << >>

InitSheet ==
  /\ pc = "sheet"
  /\ \/ /\ sheet_name = HmcKey
        /\ ChooseDf(HmcRowCounts, HmcColCounts, HmcOffsets)
        /\ data = EmptyData
     \/ /\ sheet_name = SystemKey
        /\ ChooseDf(1..MaxRows, ServerColCounts, RowOffsets(ServerCols))
        /\ data = EmptyData
     \/ /\ sheet_name = LparKey
        /\ ChooseDf(1..MaxRows, LparColCounts, RowOffsets(LparCols))
        /\ data = EmptyData
     \/ /\ sheet_name \in Names(MaxTokens)
        /\ df \in {FullDf, NoRowsDf, NoColsDf}
        /\ data \in {EmptyData, PriorData}
  /\ routed = "none"
  /\ Idle

ProcessSheet ==
  /\ pc = "sheet"
  /\ data' = process_excel_sheet(df, sheet_name, data)
  /\ routed' = SheetBranch(df, sheet_name)
  /\ pc' = "sheet_done"
  /\ UNCHANGED <<df, sheet_name, mainVars>>

NextSheet == ProcessSheet

SpecSheet == InitSheet /\ [][NextSheet]_vars

-----------------------------------------------------------------------------
(* One call of process_excel_sheet on a view some of whose rows raise      *)

RowNames == <<"a", "b", "c", "e", "f", "h">>

(* MaxRows + 1 rows, each with its own name in column 0 and a value in     *)
(* columns 2 and 6; the rows in T hold a faulty value in column c          *)
FaultDf(T, c, b) ==
  [nrows |-> MaxRows + 1, ncols |-> 7,
   cells |-> [p \in (0..MaxRows) \X {0, 2, 6} |->
                IF p[1] \in T /\ p[2] = c THEN FaultCell
                ELSE IF p[2] = 0 THEN StrCell(<<RowNames[p[1] + 1]>>)
                ELSE StrCell(<<"5">>)],
   blank |-> b]

InitRows ==
  /\ pc = "sheet"
  /\ sheet_name \in {SystemKey, LparKey}
  /\ \E T \in SUBSET (0..MaxRows), c \in {0, 2, 6}, b \in BlankPool :
       df = FaultDf(T, c, b)
  /\ data \in {EmptyData, PriorData}
  /\ routed = "none"
  /\ Idle

SpecRows == InitRows /\ [][NextSheet]_vars

-----------------------------------------------------------------------------
(* The workbook loader: extract_data_from_excel                            *)
(*                                                                         *)
(* A sheet of a workbook file: its name, its rows (row 0 is the header     *)
(* row, which holds the column titles), its columns and the cells of the   *)
(* later rows that hold a value.  A file is its sheets and, for each       *)
(* strategy, the sheet at which reading raises (0: the strategy succeeds;  *)
(* 1 also stands for a failure to open the workbook).  pd.read_excel       *)
(* parses one sheet per call and may raise at any sheet;                   *)
(* openpyxl.load_workbook parses every sheet, so the fallback raises when  *)
(* it opens the workbook or not at all.                                    *)

MaxSheets == 2
MaxFiles == 2

(* pd.read_excel: the header row becomes the column index, a cell without  *)
(* a value reads as NaN                                                    *)
PandasView(sh) ==
  [nrows |-> IF sh.nrows > 0 THEN sh.nrows - 1 ELSE 0,
   ncols |-> sh.ncols,
   cells |-> [p \in {<<q[1] - 1, q[2]>> : q \in DOMAIN sh.cells}
                |-> sh.cells[<<p[1] + 1, p[2]>>]],
   blank |-> NaNCell]

(* sheet.iter_rows keeping the rows with a value, then                     *)
(* pd.DataFrame(rows[1:], columns=rows[0]): rows without any value are     *)
(* dropped, a cell without a value reads as None                           *)
KeptRows(sh) == {0} \cup {q[1] : q \in DOMAIN sh.cells}

RowRank(sh, r) == Cardinality({k \in KeptRows(sh) : k < r})

FallbackView(sh) ==
  [nrows |-> Cardinality(KeptRows(sh)) - 1,
   ncols |-> sh.ncols,
   cells |-> [p \in {<<RowRank(sh, q[1]) - 1, q[2]>> : q \in DOMAIN sh.cells}
                |-> LET q == CHOOSE q \in DOMAIN sh.cells :
                                 RowRank(sh, q[1]) - 1 = p[1] /\ q[2] = p[2]
                    IN  sh.cells[q]],
   blank |-> NoneCell]

(* the tabular view a strategy hands to process_excel_sheet *)
ViewOf(strategy, sh) ==
  IF strategy = "pandas" THEN PandasView(sh) ELSE FallbackView(sh)

(* the for loop of one strategy from sheet i on; stops where it raises *)
RECURSIVE SheetLoop(_, _, _, _, _)
SheetLoop(sheets, strategy, failAt, i, dat) ==
  IF i > Len(sheets) THEN [data |-> dat, raised |-> FALSE]
  ELSE IF failAt = i THEN [data |-> dat, raised |-> TRUE]
  ELSE SheetLoop(sheets, strategy, failAt, i + 1,
                 process_excel_sheet(ViewOf(strategy, sheets[i]),
                                     sheets[i].name, dat))

extract_data_from_excel(f) ==
  LET primary == SheetLoop(f.sheets, "pandas", f.pfail, 1, EmptyData)
  IN  IF ~primary.raised THEN primary.data
      ELSE SheetLoop(f.sheets, "openpyxl", f.ffail, 1, primary.data).data

(* the sheets of the workbooks: an HMC sheet, a system summary with two    *)
(* servers whose serial cells hold no value, and an LPAR sheet             *)
SheetPool ==
  {[name |-> <<"H", "M", "C">>, nrows |-> 3, ncols |-> 2,
    cells |-> (<<1, 1>> :> StrCell(<<"b">>)) @@ (<<2, 1>> :> StrCell(<<"a">>))],
   [name |-> <<"S", "y", "s", "t", "e", "m", "_", "S", "u", "m", "m", "a",
               "r", "y">>,
    nrows |-> 3, ncols |-> 4,
    cells |-> (<<1, 0>> :> StrCell(<<"a">>)) @@ (<<1, 2>> :> StrCell(<<"b">>))
              @@ (<<2, 0>> :> StrCell(<<"b">>)) @@ (<<2, 2>> :> StrCell(<<"a">>))],
   [name |-> LparKey, nrows |-> 2, ncols |-> 7,
    cells |-> (<<1, 0>> :> StrCell(<<"a">>)) @@ (<<1, 6>> :> StrCell(<<"5">>))]}

(* workbooks of up to k sheets; the sheet names of a workbook are distinct *)
RECURSIVE Workbooks(_)
Workbooks(k) ==
  IF k = 1 THEN {<<sh>> : sh \in SheetPool}
  ELSE LET prev == Workbooks(k - 1)
       IN  prev \cup
             UNION {{Append(w, sh) :
                       sh \in {x \in SheetPool :
                                 \A i \in 1..Len(w) : w[i].name # x.name}} :
                    w \in prev}

(* the files main may find: the fallback strategy runs only if the        *)
(* primary one raised                                                      *)
Files ==
  {f \in UNION {{[sheets |-> w, pfail |-> pf, ffail |-> ff] :
                   pf \in 0..Len(w), ff \in {0, 1}} :
                w \in Workbooks(MaxSheets)} :
     f.pfail = 0 => f.ffail = 0}

(* extract_data_from_excel on every file, evaluated once *)
LoaderResult == [f \in Files |-> extract_data_from_excel(f)]

(* both strategies raise on the file *)
BothFail(f) == f.pfail > 0 /\ f.ffail > 0

-----------------------------------------------------------------------------
(* create_word_document                                                    *)

Heading(text) == [t |-> "heading", text |-> text, rows |-> << >>]
Table(rows) == [t |-> "table", text |-> "", rows |-> rows]
Spacer == [t |-> "spacer", text |-> "", rows |-> << >>]

(* variant: a row for every field, whatever its value *)
FieldRowsUnfiltered(rec, labels) ==
  [i \in 1..Len(labels) |-> <<labels[i][2], rec[labels[i][1]]>>]

(* the (label, value) rows of the fields that are truthy, in table order *)
FieldRows(rec, labels) ==
  LET kept == SelectSeq(labels, LAMBDA p : FieldTruthy(rec[p[1]]))
  IN  [i \in 1..Len(kept) |-> <<kept[i][2], rec[kept[i][1]]>>]

HmcLabels ==
  <<<<"hostname", "HOSTNAME">>, <<"hardware_model", "MODEL">>,
    <<"serial", "SERIAL">>, <<"base_version", "BASE VERSION">>,
    <<"service_pack", "SERVICE PACK">>, <<"gateway", "GATEWAY">>>>

EthLabels ==
  <<<<"eth0", "IP ADDR - ETH0">>, <<"eth1", "IP ADDR - ETH1">>,
    <<"eth2", "IP ADDR - ETH2">>, <<"eth3", "IP ADDR - ETH3">>>>

LparLabels ==
  <<<<"lpar_name", "LPAR NAME">>,
    <<"desired_entitled_cpu", "DESIRED ENTITLED CPU">>,
    <<"min_cpu", "MIN CPU">>, <<"max_cpu", "MAX CPU">>,
    <<"desired_virtual_processor", "DESIRED VIRTUAL PROCESSOR">>,
    <<"min_virtual_processor", "MIN VIRTUAL PROCESSOR">>,
    <<"max_virtual_processor", "MAX VIRTUAL PROCESSOR">>,
    <<"entitled_memory_gb", "ENTITLED MEMORY (GB)">>,
    <<"min_memory_gb", "MIN MEMORY (GB)">>,
    <<"max_memory_gb", "MAX MEMORY (GB)">>,
    <<"power_server", "POWER SERVER">>>>

ServerLabels ==
  <<<<"server_name", "SERVER NAME">>, <<"model", "MODEL">>,
    <<"serial", "SERIAL">>, <<"cpu", "CPU CORES">>,
    <<"memory", "MEMORY (GB)">>, <<"firmware_level", "FIRMWARE LEVEL">>,
    <<"fsp_ip_address", "FSP IP ADDRESS">>>>

HmcTable(hmc) ==
  LET eths == SelectSeq(EthLabels, LAMBDA p : p[1] \in DOMAIN hmc.ip_addresses)
  IN  Table(FieldRows(hmc, HmcLabels)
            \o [i \in 1..Len(eths) |-> <<eths[i][2], hmc.ip_addresses[eths[i][1]]>>])

LparTable(lpar) == Table(FieldRows(lpar, LparLabels))
ServerTable(server) == Table(FieldRows(server, ServerLabels))

(* the table of one record of a kind *)
RecordTable(kind, rec) ==
  CASE kind = "hmc_info" -> HmcTable(rec)
    [] kind = "lpar_info" -> LparTable(rec)
    [] kind = "system_info" -> ServerTable(rec)

(* for each record from the i-th on, its table and a spacer *)
RECURSIVE Tables(_, _, _)
Tables(recs, kind, i) ==
  IF i > Len(recs) THEN << >>
  ELSE <<RecordTable(kind, recs[i]), Spacer>> \o Tables(recs, kind, i + 1)

(* one section: nothing for an empty collection, else the heading and the  *)
(* tables                                                                  *)
Section(title, dat, kind) ==
  IF dat[kind] = << >> THEN << >>
  ELSE <<Heading(title)>> \o Tables(dat[kind], kind, 1)

create_word_document(dat) ==
  [summary |-> [hmc |-> Len(dat.hmc_info), system |-> Len(dat.system_info),
                lpar |-> Len(dat.lpar_info)],
   body |-> Section("HMC Information", dat, "hmc_info")
            \o Section("LPAR Information", dat, "lpar_info")
            \o Section("System Server Information", dat, "system_info")]

-----------------------------------------------------------------------------
(* main                                                                    *)

Keys == {"hmc_info", "system_info", "lpar_info"}

(* variant: the file's records ahead of the aggregate's *)
MergePrepend(all, fd) == [key \in Keys |-> fd[key] \o all[key]]

(* for key in all_data: all_data[key].extend(file_data[key]) *)
Merge(all, fd) == [key \in Keys |-> all[key] \o fd[key]]

Init ==
  /\ pc = "main"
  /\ nfiles \in 0..MaxFiles
  /\ idx = 0 /\ cur = << >> /\ file_data = EmptyData
  /\ all_data = EmptyData /\ contrib = << >> /\ unreadable = << >>
  /\ calls = [loader |-> 0, renderer |-> 0] /\ doc = << >>
  /\ log = << >>
  /\ df = << >> /\ sheet_name = EmptyStr /\ data = EmptyData
  /\ routed = "none"

(* if not excel_files: print("No Excel files found ..."); return *)
MainNoFiles ==
  /\ pc = "main" /\ nfiles = 0
  /\ log' = Append(log, "No Excel files found")
  /\ pc' = "done"
  /\ UNCHANGED <<sheetVars, nfiles, idx, cur, file_data, all_data, contrib,
                 unreadable, calls, doc>>

(* variant: main without the early return on an empty file list *)
MainStartUnguarded ==
  /\ pc = "main"
  /\ log' = Append(log, "Found Excel files to process")
  /\ pc' = "loop"
  /\ all_data' = EmptyData
  /\ UNCHANGED <<sheetVars, nfiles, idx, cur, file_data, contrib, unreadable,
                 calls, doc>>

(* print(f"Found {len(excel_files)} Excel files to process"); all_data = {} *)
MainStart ==
  /\ pc = "main" /\ nfiles > 0
  /\ log' = Append(log, "Found Excel files to process")
  /\ pc' = "loop"
  /\ all_data' = EmptyData
  /\ UNCHANGED <<sheetVars, nfiles, idx, cur, file_data, contrib, unreadable,
                 calls, doc>>

(* one iteration of `for file_path in excel_files`; contrib and unreadable *)
(* record what each file returned and whether both strategies raised on it *)
ProcessFile ==
  /\ pc = "loop" /\ idx < nfiles
  /\ cur' \in Files
  /\ file_data' = LoaderResult[cur']
  /\ all_data' = Merge(all_data, file_data')
  /\ contrib' = Append(contrib, file_data')
  /\ unreadable' = Append(unreadable, BothFail(cur'))
  /\ calls' = [calls EXCEPT !.loader = @ + 1]
  /\ idx' = idx + 1
  /\ UNCHANGED <<pc, sheetVars, nfiles, doc, log>>

(* variant: the document is written once the first file is merged *)
RenderAfterFirstFile ==
  /\ pc = "loop" /\ idx > 0
  /\ doc' = create_word_document(all_data)
  /\ calls' = [calls EXCEPT !.renderer = @ + 1]
  /\ pc' = "done"
  /\ UNCHANGED <<sheetVars, nfiles, idx, cur, file_data, all_data, contrib,
                 unreadable, log>>

(* create_word_document(all_data, output_file) after the loop *)
Render ==
  /\ pc = "loop" /\ idx = nfiles
  /\ doc' = create_word_document(all_data)
  /\ calls' = [calls EXCEPT !.renderer = @ + 1]
  /\ pc' = "done"
  /\ UNCHANGED <<sheetVars, nfiles, idx, cur, file_data, all_data, contrib,
                 unreadable, log>>

Next == MainNoFiles \/ MainStart \/ ProcessFile \/ Render

Spec == Init /\ [][Next]_vars

-----------------------------------------------------------------------------
(* Properties of the loader and of main, checked under Spec                *)

(* the records of one kind of a sequence of collections, concatenated *)
RECURSIVE ConcatKey(_, _, _)
ConcatKey(ds, key, i) ==
  IF i > Len(ds) THEN << >> ELSE ds[i][key] \o ConcatKey(ds, key, i + 1)

(* the same, over the entries that are not flagged *)
RECURSIVE ConcatUnflagged(_, _, _, _)
ConcatUnflagged(ds, flags, key, i) ==
  IF i > Len(ds) THEN << >>
  ELSE (IF flags[i] THEN << >> ELSE ds[i][key])
       \o ConcatUnflagged(ds, flags, key, i + 1)

Perms(n) ==
  {p \in [1..n -> 1..n] : \A i, j \in 1..n : p[i] = p[j] => i = j}

RECURSIVE SumLen(_, _, _, _)
SumLen(ds, p, key, i) ==
  IF i > Len(ds) THEN 0 ELSE Len(ds[p[i]][key]) + SumLen(ds, p, key, i + 1)

(* the records of a view extracted on its own, row after row *)
RECURSIVE RowByRow(_, _, _, _)
RowByRow(d, key, kind, r) ==
  IF r >= d.nrows THEN << >>
  ELSE (IF kind = "system" THEN ServerRow(d, r, EmptyData)[key]
        ELSE LparRow(d, r, EmptyData)[key])
       \o RowByRow(d, key, kind, r + 1)

SheetRecords(d, name, key) ==
  LET n == Lower(name)
  IN  IF IsEmptyDf(d) THEN << >>
      ELSE IF Contains(n, HmcKey)
        THEN extract_hmc_info_from_sheet(d, EmptyData)[key]
      ELSE IF Contains(n, SystemKey) THEN RowByRow(d, key, "system", 0)
      ELSE IF Contains(n, LparKey) THEN RowByRow(d, key, "lpar", 0)
      ELSE << >>

(* the records of the sheets 1..last under one strategy, sheet after sheet *)
RECURSIVE SheetBySheet(_, _, _, _, _)
SheetBySheet(sheets, strategy, key, i, last) ==
  IF i > last THEN << >>
  ELSE SheetRecords(ViewOf(strategy, sheets[i]), sheets[i].name, key)
       \o SheetBySheet(sheets, strategy, key, i + 1, last)

Visited(f, failAt) == IF failAt = 0 THEN Len(f.sheets) ELSE failAt - 1

SheetOrder(f, key) ==
  SheetBySheet(f.sheets, "pandas", key, 1, Visited(f, f.pfail))
    \o (IF f.pfail = 0 THEN << >>
        ELSE SheetBySheet(f.sheets, "openpyxl", key, 1, Visited(f, f.ffail)))

(* the same for every file, evaluated once *)
ExtractionOrder == [f \in Files |-> [key \in Keys |-> SheetOrder(f, key)]]

(* C3: when both the primary and the fallback strategy raise on a file,    *)
(* extract_data_from_excel returns three empty collections, wherever the   *)
(* primary strategy raised.                                                *)
C3_BothFailReturnsEmpty ==
  (idx > 0 /\ BothFail(cur)) => file_data = EmptyData

(* C4: with unreadable files among the processed files, in any position,   *)
(* the run completes: every file was handed to the loader, the renderer    *)
(* was called, and the rendered collections hold the records of the        *)
(* readable files only.                                                    *)
C4_OnlyValidFilesRendered ==
  (/\ pc = "done"
   /\ \E i \in 1..Len(unreadable) : unreadable[i]
   /\ \E i \in 1..Len(unreadable) : ~unreadable[i]) =>
    /\ calls.loader = nfiles /\ calls.renderer = 1
    /\ \A key \in Keys :
         all_data[key] = ConcatUnflagged(contrib, unreadable, key, 1)
    /\ doc = create_word_document(
               [key \in Keys |-> ConcatUnflagged(contrib, unreadable, key, 1)])

(* C5: the aggregate of each kind is the concatenation of the per-file     *)
(* collections in processing order; its length is the sum of the per-file  *)
(* lengths taken in any order; each per-file collection holds the records  *)
(* in sheet-then-row extraction order.                                     *)
C5_AggregateIsConcatenation ==
  /\ Len(contrib) = idx
  /\ \A key \in Keys :
       /\ all_data[key] = ConcatKey(contrib, key, 1)
       /\ \A p \in Perms(Len(contrib)) :
            Len(all_data[key]) = SumLen(contrib, p, key, 1)
       /\ idx > 0 =>
            /\ contrib[idx] = file_data
            /\ file_data[key] = ExtractionOrder[cur][key]

C5_Witness ==
  /\ pc = "done" /\ idx = 2
  /\ Len(contrib[1].system_info) = 2 /\ Len(contrib[2].system_info) = 2
  /\ contrib[1].system_info # contrib[2].system_info
  /\ Len(all_data.system_info) = 4
  /\ Len(contrib[2].hmc_info) = 1

(* C8: with no matching file, main logs the condition and returns without  *)
(* calling the loader or the renderer; nothing is extracted and no         *)
(* document is written.                                                    *)
C8_NoFilesNoWork ==
  nfiles = 0 =>
    /\ calls.loader = 0 /\ calls.renderer = 0
    /\ doc = << >> /\ all_data = EmptyData /\ contrib = << >>
    /\ pc \in {"main", "done"}
    /\ pc = "done" => log = <<"No Excel files found">>

C8_Witness ==
  pc = "done" /\ nfiles = 0 /\ log = <<"No Excel files found">> /\ doc = << >>

Max(a, b) == IF a >= b THEN a ELSE b

(* the number of records of a kind the sheets from the i-th on hold, each  *)
(* sheet read once, by the strategy that finds more in it                  *)
RECURSIVE EachSheetOnce(_, _, _)
EachSheetOnce(sheets, key, i) ==
  IF i > Len(sheets) THEN 0
  ELSE Max(Len(SheetRecords(PandasView(sheets[i]), sheets[i].name, key)),
           Len(SheetRecords(FallbackView(sheets[i]), sheets[i].name, key)))
       + EachSheetOnce(sheets, key, i + 1)

(* the same for every file, evaluated once *)
OnceBound == [f \in Files |-> [key \in Keys |-> EachSheetOnce(f.sheets, key, 1)]]

(* C13: within one call of extract_data_from_excel every sheet contributes *)
(* its records at most once, also when the primary strategy raised after   *)
(* some sheets and the fallback strategy then read the workbook: no        *)
(* collection returned for the file holds more records than its sheets,    *)
(* each read once, hold.                                                   *)
C13_NoSheetTwice ==
  idx > 0 => \A key \in Keys : Len(file_data[key]) <= OnceBound[cur][key]

(* the tables of a document body, in document order *)
TablesOf(body) == SelectSeq(body, LAMBDA b : b.t = "table")

LabelsOf(kind) ==
  CASE kind = "hmc_info" -> HmcLabels
    [] kind = "lpar_info" -> LparLabels
    [] kind = "system_info" -> ServerLabels

(* the records of a kind, each paired with its kind *)
Tagged(dat, kind) == [i \in 1..Len(dat[kind]) |-> <<kind, dat[kind][i]>>]

(* the number of rows with the given label and value *)
RowCount(tab, label, value) ==
  Cardinality({j \in 1..Len(tab.rows) : tab.rows[j] = <<label, value>>})

HasLabel(tab, label) == \E j \in 1..Len(tab.rows) : tab.rows[j][1] = label

(* the table has two columns, one row for each non-empty field of the      *)
(* record (for an HMC, each interface with an entry) and no other row      *)
Shows(tab, rec, kind) ==
  LET labels == LabelsOf(kind)
      present == {i \in 1..Len(labels) : FieldTruthy(rec[labels[i][1]])}
      eths == IF kind = "hmc_info"
                THEN {i \in 1..Len(EthLabels) :
                        EthLabels[i][1] \in DOMAIN rec.ip_addresses}
                ELSE {}
  IN  /\ \A j \in 1..Len(tab.rows) : Len(tab.rows[j]) = 2
      /\ \A i \in 1..Len(labels) :
           IF i \in present
             THEN RowCount(tab, labels[i][2], rec[labels[i][1]]) = 1
             ELSE ~HasLabel(tab, labels[i][2])
      /\ kind = "hmc_info" =>
           \A i \in 1..Len(EthLabels) :
             IF i \in eths
               THEN RowCount(tab, EthLabels[i][2],
                             rec.ip_addresses[EthLabels[i][1]]) = 1
               ELSE ~HasLabel(tab, EthLabels[i][2])
      /\ Len(tab.rows) = Cardinality(present) + Cardinality(eths)

(* C11: the document's summary holds the sizes of the three collections;   *)
(* its body holds one two-column table per record, the HMC records first,  *)
(* then the LPAR records, then the servers, each kind in the order of its  *)
(* collection; a table has a (label, value) row for a field exactly when   *)
(* the field is present and non-empty; every table is followed by a        *)
(* spacer.                                                                 *)
C11_RendererContract ==
  calls.renderer > 0 =>
    LET flat == Tagged(all_data, "hmc_info") \o Tagged(all_data, "lpar_info")
                  \o Tagged(all_data, "system_info")
        tabs == TablesOf(doc.body)
    IN  /\ doc.summary = [hmc |-> Len(all_data.hmc_info),
                          system |-> Len(all_data.system_info),
                          lpar |-> Len(all_data.lpar_info)]
        /\ Len(tabs) = Len(flat)
        /\ \A i \in 1..Len(flat) : Shows(tabs[i], flat[i][2], flat[i][1])
        /\ \A i \in 1..Len(doc.body) :
             doc.body[i].t = "table" =>
               i < Len(doc.body) /\ doc.body[i + 1] = Spacer
        /\ Len(SelectSeq(doc.body, LAMBDA b : b = Spacer)) = Len(tabs)

C11_Witness ==
  /\ pc = "done" /\ calls.renderer = 1
  /\ Len(all_data.hmc_info) >= 1 /\ Len(all_data.lpar_info) >= 1
  /\ Len(all_data.system_info) >= 2
  /\ all_data.system_info[1] # all_data.system_info[2]
  /\ Len(TablesOf(doc.body)) = Len(all_data.hmc_info)
       + Len(all_data.lpar_info) + Len(all_data.system_info)
  /\ \E i \in 1..Len(doc.body) :
       /\ doc.body[i].t = "table"
       /\ Len(doc.body[i].rows) \in 1..(Len(ServerLabels) - 1)

(* C14: when main finds at least one file, every file is handed to the    *)
(* loader exactly once and merged, and the renderer is called exactly      *)
(* once, after the last file is merged and not before; it is called also   *)
(* when no record was extracted, and then writes a document with zero      *)
(* counts.                                                                 *)
C14_EveryFileOnceThenRenderOnce ==
  nfiles > 0 =>
    /\ calls.loader = idx /\ Len(contrib) = idx /\ idx <= nfiles
    /\ calls.renderer = (IF pc = "done" THEN 1 ELSE 0)
    /\ calls.renderer = 0 => doc = << >>
    /\ calls.renderer = 1 =>
         /\ calls.loader = nfiles
         /\ \A key \in Keys : all_data[key] = ConcatKey(contrib, key, 1)
         /\ doc # << >>
         /\ doc.summary = [hmc |-> Len(all_data.hmc_info),
                           system |-> Len(all_data.system_info),
                           lpar |-> Len(all_data.lpar_info)]

C14_Witness ==
  /\ pc = "done" /\ nfiles >= 2
  /\ calls.loader = nfiles /\ calls.renderer = 1
  /\ all_data = EmptyData
  /\ doc # << >>
  /\ doc.summary = [hmc |-> 0, system |-> 0, lpar |-> 0] /\ doc.body = << >>

-----------------------------------------------------------------------------
(* Properties of process_excel_sheet and the extractors, checked under     *)
(* SpecSheet                                                               *)

SheetStep == pc = "sheet" /\ pc' = "sheet_done"

(* a value whose string form is "nan" *)
IsNanMarker(cell) == cell.k # "none" /\ PyStr(cell) = NanStr

(* the cell is inside the view and holds a text other than the marker *)
CellPresent(d, r, c) ==
  /\ r < d.nrows /\ c < d.ncols
  /\ ~IsNanMarker(Iloc(d, r, c))
  /\ clean_text(Iloc(d, r, c)) # EmptyStr

HmcFieldOffsets ==
  {<<"hostname", 15, 1>>, <<"hardware_model", 1, 1>>, <<"serial", 2, 1>>,
   <<"base_version", 4, 4>>, <<"service_pack", 2, 4>>, <<"gateway", 17, 1>>}

ServerFieldCols ==
  {<<"model", 2>>, <<"serial", 3>>, <<"cpu", 6>>, <<"memory", 15>>,
   <<"fsp_ip_address", 22>>, <<"firmware_level", 26>>}

LparFieldCols ==
  {<<"min_cpu", 16>>, <<"desired_entitled_cpu", 17>>, <<"max_cpu", 18>>,
   <<"min_virtual_processor", 19>>, <<"desired_virtual_processor", 20>>,
   <<"max_virtual_processor", 21>>, <<"min_memory_gb", 6>>,
   <<"entitled_memory_gb", 7>>, <<"max_memory_gb", 8>>,
   <<"power_server", 33>>}

Last(q) == q[Len(q)]

(* the records the step appended to a collection *)
Appended(old, new) == SubSeq(new, Len(old) + 1, Len(new))

(* the row has a name and a non-empty extracted field besides it *)
RowQualifies(d, r, FieldCols) ==
  /\ CellPresent(d, r, 0)
  /\ \E fc \in FieldCols : FieldTruthy(RowCell(d, r, fc[2]))

(* every cell of the row besides the name holds no value *)
BlankButName(d, r) ==
  \A c \in 1..(d.ncols - 1) : Iloc(d, r, c).k \in {"none", "nan"}

(* one record for each qualifying row that is not blank but for its name *)
RECURSIVE QualifyingRows(_, _, _)
QualifyingRows(d, r, FieldCols) ==
  IF r >= d.nrows THEN << >>
  ELSE (IF RowQualifies(d, r, FieldCols) /\ ~BlankButName(d, r)
          THEN <<r>> ELSE << >>)
       \o QualifyingRows(d, r + 1, FieldCols)

(* C1: a row handed to the Server or the LPAR extractor appends a record   *)
(* if and only if its first column is non-empty and at least one other     *)
(* extracted field is non-empty; a row that is blank except for its name   *)
(* appends no record.                                                      *)
C1_RecordIffNameAndOtherField ==
  [][SheetStep =>
       /\ routed' = "system" =>
            LET rows == QualifyingRows(df, 0, ServerFieldCols)
                recs == Appended(data.system_info, data'.system_info)
            IN  /\ Len(recs) = Len(rows)
                /\ \A i \in 1..Len(rows) :
                     recs[i].server_name = clean_text(Iloc(df, rows[i], 0))
       /\ routed' = "lpar" =>
            LET rows == QualifyingRows(df, 0, LparFieldCols)
                recs == Appended(data.lpar_info, data'.lpar_info)
            IN  /\ Len(recs) = Len(rows)
                /\ \A i \in 1..Len(rows) :
                     recs[i].lpar_name = clean_text(Iloc(df, rows[i], 0))
    ]_vars

(* C2: a cell holding the missing-value marker leaves its field absent, in *)
(* every field of the HMC, Server and LPAR records: no field of a produced *)
(* record carries the marker's text, alone or as the netmask of an         *)
(* interface.                                                              *)
C2_NanMarkerIsAbsent ==
  [][SheetStep =>
       /\ \A i \in 1..Len(Appended(data.hmc_info, data'.hmc_info)) :
            LET rec == Appended(data.hmc_info, data'.hmc_info)[i]
            IN  /\ \A o \in HmcFieldOffsets :
                     (/\ o[2] < df.nrows /\ o[3] < df.ncols
                      /\ IsNanMarker(Iloc(df, o[2], o[3])))
                       => ~FieldTruthy(rec[o[1]])
                /\ \A e \in DOMAIN EthCol :
                     /\ (/\ 22 < df.nrows /\ EthCol[e] < df.ncols
                         /\ IsNanMarker(Iloc(df, 22, EthCol[e])))
                          => e \notin DOMAIN rec.ip_addresses
                     /\ (/\ 23 < df.nrows /\ EthCol[e] < df.ncols
                         /\ IsNanMarker(Iloc(df, 23, EthCol[e]))
                         /\ e \in DOMAIN rec.ip_addresses)
                          => rec.ip_addresses[e] = clean_text(Iloc(df, 22, EthCol[e]))
       /\ \A i \in 1..Len(Appended(data.system_info, data'.system_info)) :
            LET rec == Appended(data.system_info, data'.system_info)[i]
            IN  \A f \in DOMAIN rec : rec[f] # NanStr
       /\ \A i \in 1..Len(Appended(data.lpar_info, data'.lpar_info)) :
            LET rec == Appended(data.lpar_info, data'.lpar_info)[i]
            IN  \A f \in DOMAIN rec : rec[f] # NanStr
    ]_vars

(* the ip_addresses of the record the step appended, none if it appended   *)
(* no record                                                               *)
NewEntries(old, new) ==
  IF Len(new.hmc_info) > Len(old.hmc_info)
    THEN Last(new.hmc_info).ip_addresses
    ELSE << >>

(* C6: for each of eth0..eth3, IP and netmask both present give the entry  *)
(* "ip/netmask"; IP present and netmask absent (empty, the marker, or      *)
(* beyond the bounds of the sheet) give the bare IP; IP absent or the      *)
(* marker gives no entry.                                                  *)
C6_IpNetmaskComposition ==
  [][(SheetStep /\ routed' = "hmc") =>
       \A e \in DOMAIN EthCol :
         LET c == EthCol[e]
             ip == clean_text(Iloc(df, 22, c))
             netmask == clean_text(Iloc(df, 23, c))
             entries == NewEntries(data, data')
         IN  /\ (CellPresent(df, 22, c) /\ CellPresent(df, 23, c)) =>
                  (e \in DOMAIN entries
                     /\ entries[e] = ip \o <<"/">> \o netmask)
             /\ (CellPresent(df, 22, c) /\ ~CellPresent(df, 23, c)) =>
                  (e \in DOMAIN entries /\ entries[e] = ip)
             /\ ~CellPresent(df, 22, c) => e \notin DOMAIN entries
    ]_vars

(* the view holds texts at some of the HMC offsets and nothing elsewhere *)
KnownHmcView(d) ==
  /\ DOMAIN d.cells # {}
  /\ DOMAIN d.cells \subseteq HmcOffsets
  /\ \A p \in DOMAIN d.cells :
       d.cells[p].k = "str" /\ p[1] < d.nrows /\ p[2] < d.ncols

(* C7: from a view holding known values at some of the HMC offsets and     *)
(* nothing at the others, the HMC extractor appends exactly one record;    *)
(* its fields at the offsets holding a value equal those values, every     *)
(* field whose offset holds no value is absent, and an interface without   *)
(* an IP has no entry.                                                     *)
C7_HmcRoundTrip ==
  [][(SheetStep /\ routed' = "hmc" /\ KnownHmcView(df)) =>
       /\ Len(data'.hmc_info) = Len(data.hmc_info) + 1
       /\ LET rec == Last(data'.hmc_info)
          IN  /\ \A o \in HmcFieldOffsets :
                   IF <<o[2], o[3]>> \in DOMAIN df.cells
                     THEN rec[o[1]] = clean_text(df.cells[<<o[2], o[3]>>])
                     ELSE ~FieldTruthy(rec[o[1]])
              /\ \A e \in DOMAIN EthCol :
                   <<22, EthCol[e]>> \notin DOMAIN df.cells
                     => e \notin DOMAIN rec.ip_addresses
    ]_vars

(* the rows of the view none of whose cells in the given columns is faulty *)
RECURSIVE SoundRows(_, _, _)
SoundRows(d, r, Cols) ==
  IF r >= d.nrows THEN << >>
  ELSE (IF \E c \in Cols : c < d.ncols /\ Iloc(d, r, c).k = "fault"
          THEN << >> ELSE <<r>>)
       \o SoundRows(d, r + 1, Cols)

(* C12: in the Server and the LPAR extractor a row whose processing raises *)
(* appends no record; the records the collection held before are          *)
(* unchanged, and every row that does not raise, before or after a row     *)
(* that does, appends its record, in row order.                            *)
C12_RowFaultSkipsOnlyThatRow ==
  [][SheetStep =>
       /\ routed' = "system" =>
            LET rows == SoundRows(df, 0, {0} \cup {fc[2] : fc \in ServerFieldCols})
                recs == Appended(data.system_info, data'.system_info)
            IN  /\ SubSeq(data'.system_info, 1, Len(data.system_info))
                     = data.system_info
                /\ Len(recs) = Len(rows)
                /\ \A i \in 1..Len(rows) :
                     /\ recs[i].server_name = clean_text(Iloc(df, rows[i], 0))
                     /\ recs[i].cpu = clean_text(Iloc(df, rows[i], 6))
                /\ data'.lpar_info = data.lpar_info
       /\ routed' = "lpar" =>
            LET rows == SoundRows(df, 0, {0} \cup {fc[2] : fc \in LparFieldCols})
                recs == Appended(data.lpar_info, data'.lpar_info)
            IN  /\ SubSeq(data'.lpar_info, 1, Len(data.lpar_info))
                     = data.lpar_info
                /\ Len(recs) = Len(rows)
                /\ \A i \in 1..Len(rows) :
                     /\ recs[i].lpar_name = clean_text(Iloc(df, rows[i], 0))
                     /\ recs[i].min_memory_gb = clean_text(Iloc(df, rows[i], 6))
                /\ data'.system_info = data.system_info
    ]_vars

C12_Witness ==
  /\ pc = "sheet_done" /\ routed = "system"
  /\ \E r \in 1..(df.nrows - 2) :
       /\ Iloc(df, r, 6).k = "fault"
       /\ Iloc(df, r - 1, 6).k # "fault" /\ Iloc(df, r + 1, 6).k # "fault"
  /\ Len(data.system_info) = 1 + Len(SoundRows(df, 0, {6}))
  /\ Len(SoundRows(df, 0, {6})) >= 2
  /\ data.system_info[1] = PriorData.system_info[1]

(* C9: a non-empty sheet goes to the HMC extractor if its lower-cased name *)
(* contains "hmc", otherwise to the Server extractor if it contains        *)
(* "system_summary", otherwise to the LPAR extractor if it contains        *)
(* "lpar_profiles", otherwise to none, and then the three collections are  *)
(* unchanged; an extractor changes no collection but its own.              *)
C9_ClassifierRoutes ==
  [][(SheetStep /\ ~IsEmptyDf(df)) =>
       LET n == Lower(sheet_name)
           isHmc == Contains(n, HmcKey)
           isSystem == ~isHmc /\ Contains(n, SystemKey)
           isLpar == ~isHmc /\ ~isSystem /\ Contains(n, LparKey)
       IN  /\ isHmc =>
                /\ routed' = "hmc"
                /\ data' = extract_hmc_info_from_sheet(df, data)
                /\ data'.system_info = data.system_info
                /\ data'.lpar_info = data.lpar_info
           /\ isSystem =>
                /\ routed' = "system"
                /\ data' = extract_system_summary_info_from_sheet(df, data)
                /\ data'.hmc_info = data.hmc_info
                /\ data'.lpar_info = data.lpar_info
           /\ isLpar =>
                /\ routed' = "lpar"
                /\ data' = extract_lpar_info_from_sheet(df, data)
                /\ data'.hmc_info = data.hmc_info
                /\ data'.system_info = data.system_info
           /\ (~isHmc /\ ~isSystem /\ ~isLpar) =>
                (routed' = "none" /\ data' = data)
    ]_vars

C9_Witness ==
  /\ pc = "sheet_done" /\ routed = "system"
  /\ sheet_name # Lower(sheet_name)
  /\ Contains(Lower(sheet_name), LparKey)
  /\ Len(data.system_info) = 2 /\ Len(data.lpar_info) = 1

(* C10: a field whose offset lies beyond the sheet (HMC) or beyond the row *)
(* (Server, LPAR) is absent in the record, and a field whose offset is     *)
(* inside is extracted from its cell.                                      *)
C10_OutOfBoundsAbsentInBoundsRead ==
  [][SheetStep =>
       /\ routed' = "hmc" =>
            /\ \A i \in 1..Len(Appended(data.hmc_info, data'.hmc_info)) :
                 LET rec == Appended(data.hmc_info, data'.hmc_info)[i]
                 IN  \A o \in HmcFieldOffsets :
                       rec[o[1]] = IF o[2] < df.nrows /\ o[3] < df.ncols
                                     THEN clean_text(Iloc(df, o[2], o[3]))
                                     ELSE PyNone
            /\ \A e \in DOMAIN EthCol :
                 /\ ~(22 < df.nrows /\ EthCol[e] < df.ncols)
                      => e \notin DOMAIN NewEntries(data, data')
                 /\ CellPresent(df, 22, EthCol[e])
                      => e \in DOMAIN NewEntries(data, data')
       /\ routed' = "system" =>
            \A i \in 1..Len(Appended(data.system_info, data'.system_info)) :
              LET rec == Appended(data.system_info, data'.system_info)[i]
              IN  \E r \in 0..(df.nrows - 1) :
                    /\ rec.server_name = clean_text(Iloc(df, r, 0))
                    /\ \A fc \in ServerFieldCols :
                         rec[fc[1]] = IF fc[2] < df.ncols
                                        THEN clean_text(Iloc(df, r, fc[2]))
                                        ELSE PyNone
       /\ routed' = "lpar" =>
            \A i \in 1..Len(Appended(data.lpar_info, data'.lpar_info)) :
              LET rec == Appended(data.lpar_info, data'.lpar_info)[i]
              IN  \E r \in 0..(df.nrows - 1) :
                    /\ rec.lpar_name = clean_text(Iloc(df, r, 0))
                    /\ \A fc \in LparFieldCols :
                         rec[fc[1]] = IF fc[2] < df.ncols
                                        THEN clean_text(Iloc(df, r, fc[2]))
                                        ELSE PyNone
    ]_vars

====
